---- MODULE Spec2Model ----
(***************************************************************************)
(* Rules engine for BigQuery data sets                                     *)
(* (google/cloud/forseti/scanner/audit/bigquery_rules_engine.py).          *)
(*                                                                         *)
(* Two specifications share the operators that model the code:             *)
(*   SpecRule - Rule.find_policy_violations applied to every rule          *)
(*              definition / access-control entry of a bounded domain;     *)
(*   Spec     - the engine: build_rule_book, find_policy_violations,       *)
(*              add_rules, and the lazy consumption of returned sequences. *)
(*                                                                         *)
(* Strings that are matched against patterns are sequences of one-letter   *)
(* strings; names, types and identifiers are opaque strings.  A Python     *)
(* dict is a function whose DOMAIN is its key set.                         *)
(***************************************************************************)
EXTENDS Integers, Sequences, FiniteSets, TLC

VARIABLES
    rule_def,    \* SpecRule: the rule definition under test (dict, no 'mode')
    bq_acl,      \* SpecRule: the access-control entry under test
    yielded,     \* SpecRule: per definition mode, what the generator yielded
    heap,        \* Spec: every BigqueryRuleBook object ever allocated
    rule_book,   \* Spec: BigqueryRulesEngine.rule_book (0 = None, else heap index)
    gens,        \* Spec: the returned violation sequence a caller holds, if any
    last         \* Spec: the last engine method called and the exception it raised

vars == <<rule_def, bq_acl, yielded, heap, rule_book, gens, last>>

(***************************************************************************)
(* Python helpers                                                          *)
(***************************************************************************)

\* dict.get(k, default)
Get(d, k, default) == IF k \in DOMAIN d THEN d[k] ELSE default

\* A dict display {k1: v1, ..., kn: vn}, given as the sequence of its
\* key/value pairs: a later pair overwrites an earlier one with an equal key.
DictLiteral(pairs) ==
    [k \in {pairs[i][1] : i \in 1..Len(pairs)} |->
        LET last_i == CHOOSE i \in 1..Len(pairs) :
                        /\ pairs[i][1] = k
                        /\ \A j \in 1..Len(pairs) : pairs[j][1] = k => j <= i
        IN  pairs[last_i][2]]

\* str.upper() on the letters of the model's alphabet
UpperChar(c) == CASE c = "a" -> "A" [] c = "b" -> "B" [] OTHER -> c

Upper(s) == [i \in 1..Len(s) |-> UpperChar(s[i])]

(***************************************************************************)
(* regular_exp (pattern compiler): a glob becomes an anchored regular      *)
(* expression, a sequence of tokens "^", literal letters, ".*" and "$".    *)
(***************************************************************************)

escape_and_globify(pattern_string) ==
    <<"^">> \o [i \in 1..Len(pattern_string) |->
                  IF pattern_string[i] = "*" THEN ".*" ELSE pattern_string[i]]
            \o <<"$">>

RECURSIVE ReMatchBody(_, _)
ReMatchBody(r, v) ==
    IF r = <<>> THEN FALSE
    ELSE IF Head(r) = "$" THEN v = <<>> /\ Len(r) = 1
    ELSE IF Head(r) = ".*"
         THEN \/ ReMatchBody(Tail(r), v)
              \/ (v # <<>> /\ ReMatchBody(r, Tail(v)))
    ELSE v # <<>> /\ Head(v) = Head(r) /\ ReMatchBody(Tail(r), Tail(v))

\* re.match(regex, val) for a regex produced by escape_and_globify
ReMatch(regex, val) ==
    /\ regex # <<>>
    /\ Head(regex) = "^"
    /\ ReMatchBody(Tail(regex), val)

\* all_match(rule_regex_to_val): every key matches its value
all_match(rule_regex_to_val) ==
    \A regex \in DOMAIN rule_regex_to_val :
        ReMatch(regex, rule_regex_to_val[regex])

(***************************************************************************)
(* Mode, BigqueryRuleBook._build_rule, Rule                                *)
(***************************************************************************)

WHITELIST == "WHITELIST"
BLACKLIST == "BLACKLIST"

\* Mode(def_mode): the enum member with that value
Mode(def_mode) ==
    CASE def_mode = "whitelist" -> WHITELIST
      [] def_mode = "blacklist" -> BLACKLIST

Star == <<"*">>

_build_rule(rule_def_, rule_index, raw_resource) ==
    LET dataset_id    == Get(rule_def_, "dataset_id", Star)
        special_group == Get(rule_def_, "special_group", Star)
        user_email    == Get(rule_def_, "user_email", Star)
        domain        == Get(rule_def_, "domain", Star)
        group_email   == Get(rule_def_, "group_email", Star)
        role          == Get(rule_def_, "role", Star)
        mode          == IF "mode" \in DOMAIN rule_def_
                         THEN Mode(rule_def_["mode"])
                         ELSE BLACKLIST
    IN  [rule_name  |-> Get(rule_def_, "name", "None"),
         rule_index |-> rule_index,
         rules |->
           [bigquery_acl |->
              [project_id    |-> "",
               dataset_id    |-> escape_and_globify(dataset_id),
               full_name     |-> "",
               special_group |-> escape_and_globify(special_group),
               user_email    |-> escape_and_globify(user_email),
               domain        |-> escape_and_globify(domain),
               group_email   |-> escape_and_globify(group_email),
               role          |-> escape_and_globify(Upper(role)),
               view          |-> "{}",
               json          |-> raw_resource],
            mode |-> mode]]

_is_applicable(rule, bigquery_acl) ==
    LET rule_bigquery_acl == rule.rules.bigquery_acl
        rule_regex_to_val == DictLiteral(<<
            <<rule_bigquery_acl.dataset_id, bigquery_acl.dataset_id>>,
            <<rule_bigquery_acl.role, bigquery_acl.role>> >>)
    IN  all_match(rule_regex_to_val)

has_violation_swapped(mode, all_matched) ==
    \/ mode = BLACKLIST
    \/ (mode = WHITELIST /\ ~all_matched)

has_violation(mode, all_matched) ==
    \/ (mode = BLACKLIST /\ all_matched)
    \/ (mode = WHITELIST /\ ~all_matched)

RuleViolation(rule, bigquery_acl) ==
    [resource_type  |-> "bigquery",
     resource_id    |-> bigquery_acl.dataset_id,
     full_name      |-> bigquery_acl.full_name,
     rule_name      |-> rule.rule_name,
     rule_index     |-> rule.rule_index,
     violation_type |-> "BIGQUERY_VIOLATION",
     dataset_id     |-> bigquery_acl.dataset_id,
     role           |-> bigquery_acl.role,
     special_group  |-> bigquery_acl.special_group,
     user_email     |-> bigquery_acl.user_email,
     domain         |-> bigquery_acl.domain,
     group_email    |-> bigquery_acl.group_email,
     view           |-> bigquery_acl.view,
     resource_data  |-> bigquery_acl.json]

\* Rule.find_policy_violations: the sequence the generator yields
Rule_find_policy_violations(rule, bigquery_acl) ==
    IF ~_is_applicable(rule, bigquery_acl) THEN <<>>
    ELSE
      LET rule_bigquery_acl == rule.rules.bigquery_acl
          rule_regex_to_val == DictLiteral(<<
              <<rule_bigquery_acl.special_group, bigquery_acl.special_group>>,
              <<rule_bigquery_acl.user_email, bigquery_acl.user_email>>,
              <<rule_bigquery_acl.domain, bigquery_acl.domain>>,
              <<rule_bigquery_acl.group_email, bigquery_acl.group_email>> >>)
          all_matched == all_match(rule_regex_to_val)
      IN  IF has_violation(rule.rules.mode, all_matched)
          THEN <<RuleViolation(rule, bigquery_acl)>>
          ELSE <<>>

(***************************************************************************)
(* resource_util / relationship: resource identities and ancestor chains   *)
(***************************************************************************)

\* The canonical identity of a resource: the key of resource_rules_map
create_resource(resource_id, resource_type) ==
    [type |-> resource_type, id |-> resource_id]

KeyOf(resource) == create_resource(resource.id, resource.type)

RECURSIVE Reversed(_)
Reversed(s) == IF s = <<>> THEN <<>> ELSE Append(Reversed(Tail(s)), Head(s))

\* find_ancestors(resource, full_name): the resource itself, then the
\* resources its full name lists, closest first and root last.
find_ancestors(resource, full_name) ==
    <<KeyOf(resource)>> \o
    Reversed(SelectSeq(full_name, LAMBDA k : k # KeyOf(resource)))

(***************************************************************************)
(* BigqueryRuleBook                                                        *)
(***************************************************************************)

EmptyDict == <<>>

NoError == ""

\* self.resource_rules_map[resource].append(rule) on a defaultdict(list)
MapAppend_overwrite(map, resource, rule) ==
    IF resource \in DOMAIN map
    THEN [map EXCEPT ![resource] = <<rule>>]
    ELSE map @@ (resource :> <<rule>>)

MapAppend(map, resource, rule) ==
    IF resource \in DOMAIN map
    THEN [map EXCEPT ![resource] = Append(@, rule)]
    ELSE map @@ (resource :> <<rule>>)

\* for resource_id in resource_ids: ... append(rule)
RECURSIVE AppendForIds(_, _, _, _)
AppendForIds(map, resource_type, resource_ids, rule) ==
    IF resource_ids = <<>> THEN map
    ELSE AppendForIds(
            MapAppend(map, create_resource(Head(resource_ids), resource_type), rule),
            resource_type, Tail(resource_ids), rule)

\* not resource_ids or len(resource_ids) < 1
MissingIds(raw_resource) ==
    \/ "resource_ids" \notin DOMAIN raw_resource
    \/ Len(raw_resource.resource_ids) < 1

\* add_rule from the j-th resource-scope entry on: the map as the loop left
\* it, and the exception that ended the loop, if one did.
RECURSIVE AddRuleFrom(_, _, _, _)
AddRuleFrom(map, rule_def_, rule_index, j) ==
    LET resources == rule_def_["resource"] IN
    IF j > Len(resources)
    THEN [map |-> map, error |-> NoError, rule_index |-> -1]
    ELSE LET raw_resource == resources[j] IN
         IF MissingIds(raw_resource)
         THEN [map |-> map, error |-> "InvalidRulesSchemaError",
               rule_index |-> rule_index]
         ELSE LET rule == _build_rule(rule_def_, rule_index, raw_resource)
              IN  AddRuleFrom(
                     AppendForIds(map, Get(raw_resource, "type", "None"),
                                  raw_resource.resource_ids, rule),
                     rule_def_, rule_index, j + 1)

add_rule(map, rule_def_, rule_index) == AddRuleFrom(map, rule_def_, rule_index, 1)

\* enumerate(): the index given to the i-th element (i counted from 1)
EnumIndex_countdown(i) == 0 - i

EnumIndex(i) == i - 1

RECURSIVE AddRulesFrom(_, _, _)
AddRulesFrom(map, rules, i) ==
    IF i > Len(rules)
    THEN [map |-> map, error |-> NoError, rule_index |-> -1]
    ELSE LET r == add_rule(map, rules[i], EnumIndex(i))
         IN  IF r.error # NoError THEN r
             ELSE AddRulesFrom(r.map, rules, i + 1)

\* BigqueryRuleBook.add_rules on a book whose index is map
add_rules(map, rule_defs) == AddRulesFrom(map, Get(rule_defs, "rules", <<>>), 1)

\* BigqueryRuleBook(rule_defs): the object as the constructor left it (partly
\* filled if add_rules raised) and the exception it raised, if any.  'live'
\* is the object's lifetime, not an attribute: TRUE while it is referenced.
BigqueryRuleBook(rule_defs) ==
    IF DOMAIN rule_defs = {}
    THEN [book |-> [live |-> TRUE, resource_rules_map |-> EmptyDict,
                    rule_defs |-> EmptyDict],
          error |-> NoError, rule_index |-> -1]
    ELSE LET r == add_rules(EmptyDict, rule_defs)
         IN  [book |-> [live |-> TRUE, resource_rules_map |-> r.map,
                        rule_defs |-> rule_defs],
              error |-> r.error, rule_index |-> r.rule_index]

\* itertools.chain(violations, more)
Chain_prepend(violations, more) == more \o violations

Chain(violations, more) == violations \o more

\* The inner loop of BigqueryRuleBook.find_policy_violations: one generator
\* per rule of the list, chained in list order.  A generator not yet run is
\* the rule it was created for.
RECURSIVE ChainRules(_, _)
ChainRules(violations, rule_list) ==
    IF rule_list = <<>> THEN violations
    ELSE ChainRules(Chain(violations, <<Head(rule_list)>>), Tail(rule_list))

\* The outer loop: for res in resource_ancestors
RECURSIVE ChainAncestors(_, _, _)
ChainAncestors(violations, map, resource_ancestors) ==
    IF resource_ancestors = <<>> THEN violations
    ELSE ChainAncestors(
            ChainRules(violations, Get(map, Head(resource_ancestors), <<>>)),
            map, Tail(resource_ancestors))

\* BigqueryRuleBook.find_policy_violations: the chained generators returned
RuleBook_find_policy_violations(map, resource) ==
    ChainAncestors(<<>>, map, find_ancestors(resource, resource.full_name))

(***************************************************************************)
(* SpecRule: Rule.find_policy_violations over a bounded domain of rule     *)
(* definitions and access-control entries.                                 *)
(***************************************************************************)

\* An option that leaves the key out of the rule definition
Absent == <<"absent">>

\* Pattern options of the four matched fields, and the values tried on them
FieldPatterns == {Absent, <<"a">>, <<"b", "*">>}
FieldValues   == {<<"a">>, <<"b">>}

\* Pattern options and values of the two applicability fields
DatasetPatterns == {Absent, <<"A">>, <<"a", "*">>}
RolePatterns    == {Absent, <<"a">>}
DatasetValues   == {<<"A">>, <<"a">>}
RoleValues      == {<<"A">>, <<"a">>}

MatchedFields == {"special_group", "user_email", "domain", "group_email"}

\* The 'mode' key of a definition: a mode string, or no key at all
DefModes == {"whitelist", "blacklist", "absent"}

MkDef(choice) ==
    [k \in {f \in DOMAIN choice : choice[f] # Absent} |-> choice[k]]

WithMode(def, m) ==
    IF m = "absent" THEN def ELSE def @@ ("mode" :> m)

RuleDefs ==
    {MkDef(c) : c \in [dataset_id : DatasetPatterns, role : RolePatterns,
                       special_group : FieldPatterns, user_email : FieldPatterns,
                       domain : FieldPatterns, group_email : FieldPatterns]}

Entries ==
    [dataset_id : DatasetValues, role : RoleValues,
     special_group : FieldValues, user_email : FieldValues,
     domain : FieldValues, group_email : FieldValues,
     full_name : {"organization/o1/project/p1/dataset/d1/"},
     view : {"{}"}, json : {"{acl}"}]

NotRun == [done |-> FALSE, out |-> <<>>]

EngineInit ==
    /\ heap = <<>>
    /\ rule_book = 0
    /\ gens = <<>>
    /\ last = [op |-> "__init__", error |-> "", rule_index |-> -1,
               force_rebuild |-> FALSE]

InitRule ==
    /\ rule_def \in RuleDefs
    /\ bq_acl \in Entries
    /\ yielded = [m \in DefModes |-> NotRun]
    /\ EngineInit

\* Build the rule of the definition carrying mode m and run its generator to
\* the end on the entry.
RuleFind(m) ==
    /\ ~yielded[m].done
    /\ LET rule == _build_rule(WithMode(rule_def, m), 0, "{}")
       IN  yielded' = [yielded EXCEPT ![m] =
                [done |-> TRUE,
                 out  |-> Rule_find_policy_violations(rule, bq_acl)]]
    /\ UNCHANGED <<rule_def, bq_acl, heap, rule_book, gens, last>>

NextRule == \E m \in DefModes : RuleFind(m)

SpecRule == InitRule /\ [][NextRule]_vars

(***************************************************************************)
(* Spec: BigqueryRulesEngine                                               *)
(***************************************************************************)

\* Bounds of the exploration
MaxBooks == 3        \* rule book objects allocated in one behaviour
MaxBookRules == 2    \* add_rules is applied to a book holding at most this many rules

\* self.rule_book = None
None == 0

\* Rule definitions a rules file or an add_rules argument may hold
DefBlack ==
    [name |-> "bl", mode |-> "blacklist",
     resource |-> <<[type |-> "project", resource_ids |-> <<"p1">>]>>]

DefWhite ==
    [name |-> "wl", mode |-> "whitelist", user_email |-> <<"a">>,
     resource |-> <<[type |-> "organization", resource_ids |-> <<"o1">>]>>]

DefMulti ==
    [name |-> "multi", role |-> <<"a">>, domain |-> <<"a", "*">>,
     resource |-> <<[type |-> "project", resource_ids |-> <<"p1", "p2">>],
                    [type |-> "organization", resource_ids |-> <<"o1">>]>>]

DefBad ==
    [name |-> "bad",
     resource |-> <<[type |-> "project", resource_ids |-> <<"p1">>],
                    [type |-> "project", resource_ids |-> <<>>]>>]

DefMissing ==
    [name |-> "missing", mode |-> "whitelist",
     resource |-> <<[type |-> "organization"]>>]

\* What _load_rule_definitions may return
RuleFiles ==
    {EmptyDict,
     [rules |-> <<DefBlack, DefWhite>>],
     [rules |-> <<DefWhite, DefMissing, DefBlack>>]}

\* Arguments of BigqueryRulesEngine.add_rules
RuleBatches ==
    {[rules |-> <<DefMulti, DefBlack>>],
     [rules |-> <<DefBlack, DefBad>>]}

Org1 == create_resource("o1", "organization")

\* parent_project arguments: p1 belongs to organization o1, p2 to none
Projects ==
    {[type |-> "project", id |-> "p1",
      full_name |-> <<Org1, create_resource("p1", "project")>>],
     [type |-> "project", id |-> "p2",
      full_name |-> <<create_resource("p2", "project")>>]}

\* bq_acl arguments
Acls ==
    {[dataset_id |-> <<"a">>, role |-> <<"A">>, special_group |-> <<>>,
      user_email |-> u, domain |-> <<"a">>, group_email |-> <<>>,
      full_name |-> "organization/o1/project/p1/dataset/a/",
      view |-> "{}", json |-> "{acl}"] : u \in {<<"a">>, <<"b">>}}

RECURSIVE SumLens(_, _)
SumLens(map, keys) ==
    IF keys = {} THEN 0
    ELSE LET k == CHOOSE x \in keys : TRUE
         IN  Len(map[k]) + SumLens(map, keys \ {k})

BookRules(b) == SumLens(b.resource_rules_map, DOMAIN b.resource_rules_map)

Init ==
    /\ rule_def = EmptyDict
    /\ bq_acl = CHOOSE a \in Acls : TRUE
    /\ yielded = [m \in DefModes |-> NotRun]
    /\ EngineInit

\* if self.rule_book is None or force_rebuild
NeedsBuild_unbuilt_only(rb, force_rebuild) == rb = None

NeedsBuild(rb, force_rebuild) == rb = None \/ force_rebuild

\* self.rule_book = BigqueryRuleBook(...): the constructor runs first, and
\* the assignment happens only if it returned.
Installed_before_fill(rb, built, new) == new

Installed(rb, built, new) == IF built.error = NoError THEN new ELSE rb

\* An object nothing refers to any more: its slot of the heap stays, so that
\* a heap index never names two objects, and its contents are gone.
Freed == [live |-> FALSE, resource_rules_map |-> EmptyDict, rule_defs |-> EmptyDict]

\* The heap once the engine's attribute is rb: the engine holds the only
\* reference to a rule book, so every other book is freed.  (A returned
\* sequence refers to Rule objects, never to the book.)
Sweep(h, rb) == [b \in 1..Len(h) |-> IF b = rb THEN h[b] ELSE Freed]

\* BigqueryRulesEngine.build_rule_book
build_rule_book ==
    /\ Len(heap) < MaxBooks
    /\ \E rule_defs \in RuleFiles :
         LET built == BigqueryRuleBook(rule_defs)
             new   == Len(heap) + 1
         IN  /\ rule_book' = Installed(rule_book, built, new)
             /\ heap' = Sweep(Append(heap, built.book), rule_book')
             /\ gens' = gens
             /\ last' = [op |-> "build_rule_book", error |-> built.error,
                         rule_index |-> built.rule_index, force_rebuild |-> FALSE]
    /\ UNCHANGED <<rule_def, bq_acl, yielded>>

\* The sequence object returned by a query answered from heap index b
NewGen(map, b, parent_project, acl) ==
    [rules       |-> RuleBook_find_policy_violations(map, parent_project),
     pos         |-> 0,
     yielded     |-> <<>>,
     bq_acl      |-> acl,
     resource    |-> parent_project,
     book        |-> b,
     map_at_call |-> map]

\* BigqueryRulesEngine.find_policy_violations, with a build.  The caller
\* either holds on to the returned sequence (keep) or lets it go at once.
\* The model follows one returned sequence at a time: a sequence shares no
\* state with another one, so calls made while it is held are not kept.
Engine_find_rebuild(parent_project, acl, force_rebuild, keep) ==
    /\ NeedsBuild(rule_book, force_rebuild)
    /\ Len(heap) < MaxBooks
    /\ \E rule_defs \in RuleFiles :
         LET built == BigqueryRuleBook(rule_defs)
             new   == Len(heap) + 1
             rb    == Installed(rule_book, built, new)
         IN  /\ rule_book' = rb
             /\ heap' = Sweep(Append(heap, built.book), rb)
             /\ gens' = IF built.error = NoError /\ keep
                        THEN Append(gens, NewGen(heap'[rb].resource_rules_map, rb,
                                                 parent_project, acl))
                        ELSE gens
             /\ last' = [op |-> "find_policy_violations", error |-> built.error,
                         rule_index |-> built.rule_index,
                         force_rebuild |-> force_rebuild]

\* BigqueryRulesEngine.find_policy_violations, without a build
Engine_find_installed(parent_project, acl, force_rebuild, keep) ==
    /\ ~NeedsBuild(rule_book, force_rebuild)
    /\ gens' = IF keep
               THEN Append(gens, NewGen(heap[rule_book].resource_rules_map,
                                        rule_book, parent_project, acl))
               ELSE gens
    /\ last' = [op |-> "find_policy_violations", error |-> NoError,
                rule_index |-> -1, force_rebuild |-> force_rebuild]
    /\ UNCHANGED <<heap, rule_book>>

find_policy_violations ==
    /\ \E parent_project \in Projects, acl \in Acls,
          force_rebuild \in BOOLEAN, keep \in BOOLEAN :
         /\ keep => gens = <<>>
         /\ \/ Engine_find_rebuild(parent_project, acl, force_rebuild, keep)
            \/ Engine_find_installed(parent_project, acl, force_rebuild, keep)
    /\ UNCHANGED <<rule_def, bq_acl, yielded>>

\* BigqueryRulesEngine.add_rules
Engine_add_rules ==
    /\ \E rules \in RuleBatches :
         IF rule_book # None
         THEN /\ BookRules(heap[rule_book]) <= MaxBookRules
              /\ LET r == add_rules(heap[rule_book].resource_rules_map, rules)
                 IN  /\ heap' = [heap EXCEPT ![rule_book].resource_rules_map = r.map]
                     /\ last' = [op |-> "add_rules", error |-> r.error,
                                 rule_index |-> r.rule_index,
                                 force_rebuild |-> FALSE]
         ELSE /\ heap' = heap
              /\ last' = [op |-> "add_rules", error |-> NoError,
                          rule_index |-> -1, force_rebuild |-> FALSE]
    /\ UNCHANGED <<rule_def, bq_acl, yielded, rule_book, gens>>

\* The rule whose generator the chain runs next
GenRule_live(g) ==
    LET live == RuleBook_find_policy_violations(
                    heap[rule_book].resource_rules_map, g.resource)
    IN  IF g.pos + 1 <= Len(live) THEN live[g.pos + 1] ELSE g.rules[g.pos + 1]

GenRule(g) == g.rules[g.pos + 1]

\* The consumer advances sequence i by one chained generator: the generator
\* runs Rule.find_policy_violations on the entry and is exhausted.
GenStep(i) ==
    /\ gens[i].pos < Len(gens[i].rules)
    /\ gens' = [gens EXCEPT ![i] =
          [@ EXCEPT !.pos = @ + 1,
                    !.yielded = @ \o Rule_find_policy_violations(
                                        GenRule(gens[i]), gens[i].bq_acl)]]
    /\ UNCHANGED <<rule_def, bq_acl, yielded, heap, rule_book, last>>

\* The caller lets go of sequence i, consumed to the end or not.
GenDrop(i) ==
    /\ gens' = [j \in 1..(Len(gens) - 1) |-> IF j < i THEN gens[j] ELSE gens[j + 1]]
    /\ UNCHANGED <<rule_def, bq_acl, yielded, heap, rule_book, last>>

Next ==
    \/ build_rule_book
    \/ find_policy_violations
    \/ Engine_add_rules
    \/ \E i \in 1..Len(gens) : GenStep(i)
    \/ \E i \in 1..Len(gens) : GenDrop(i)

Spec == Init /\ [][Next]_vars

(***************************************************************************)
(* Properties of the engine                                                *)
(***************************************************************************)

Index(b) == heap[b].resource_rules_map

\* The list book b held under key k before the step (empty for a book or a
\* key the step created)
OldList(b, k) ==
    IF b <= Len(heap) /\ k \in DOMAIN Index(b) THEN Index(b)[k] ELSE <<>>

\* The rules the step appended to the list of book b under key k
Appended(b, k) ==
    SubSeq(heap'[b].resource_rules_map[k], Len(OldList(b, k)) + 1,
           Len(heap'[b].resource_rules_map[k]))

\* Two indexes with the same keys and the same list under each key
SameIndex(m1, m2) ==
    /\ DOMAIN m1 = DOMAIN m2
    /\ \A k \in DOMAIN m1 : m1[k] = m2[k]

\* The step is a call of an engine method (consuming or dropping a returned
\* sequence changes neither the heap nor 'last', and never lengthens gens).
EngineStep ==
    \/ last' # last
    \/ heap' # heap
    \/ Len(gens') > Len(gens)

IsPrefix(s, t) == Len(s) <= Len(t) /\ SubSeq(t, 1, Len(s)) = s

NonDecreasing(rule_list) ==
    \A i \in 1..(Len(rule_list) - 1) :
        rule_list[i].rule_index <= rule_list[i + 1].rule_index

\* C4: when add_rules stops on a definition with a missing or empty
\* resource_ids list, no rule of that definition has been indexed under any
\* resource identity.
C4_FailedDefinitionNotIndexed ==
    [][(/\ EngineStep
        /\ last'.op = "add_rules"
        /\ last'.error = "InvalidRulesSchemaError") =>
          \A k \in DOMAIN heap'[rule_book].resource_rules_map :
             \A n \in 1..Len(Appended(rule_book, k)) :
                Appended(rule_book, k)[n].rule_index # last'.rule_index]_vars

\* C5: a build that fails on an invalid rule definition leaves the engine's
\* rule_book as it was: None if it was None, else the same object with the
\* same contents.
C5_FailedBuildKeepsInstalledBook ==
    [][(/\ EngineStep
        /\ last'.op \in {"build_rule_book", "find_policy_violations"}
        /\ last'.error # NoError) =>
          /\ rule_book' = rule_book
          /\ rule_book # None => heap'[rule_book] = heap[rule_book]]_vars

\* A rebuild failed: a second book was constructed and is gone, and the
\* engine still points at the non-empty book built before it.
C5_Witness ==
    /\ last.op \in {"build_rule_book", "find_policy_violations"}
    /\ last.error = "InvalidRulesSchemaError"
    /\ Len(heap) = 2
    /\ rule_book = 1
    /\ heap[1].live
    /\ DOMAIN Index(1) # {}
    /\ ~heap[2].live

\* C6 as claimed: no step changes the index of the installed book.
C6_InstalledBookNeverChanges ==
    [][rule_book # None =>
          heap'[rule_book].resource_rules_map = Index(rule_book)]_vars

\* C6 as amended: an installed book changes only in a step of
\* Engine.add_rules, and only by rules being appended to its lists (creating
\* a list on first use); queries change no book, and a rebuild replaces the
\* installed book by another object.
C6_OnlyAddRulesAppends ==
    [][\A b \in 1..Len(heap) :
          (heap'[b] # heap[b] /\ rule_book' = b) =>
             /\ last'.op = "add_rules"
             /\ b = rule_book
             /\ heap'[b].rule_defs = heap[b].rule_defs
             /\ \A k \in DOMAIN Index(b) :
                   /\ k \in DOMAIN heap'[b].resource_rules_map
                   /\ IsPrefix(Index(b)[k], heap'[b].resource_rules_map[k])]_vars

\* A query without rebuild for a resource none of whose ancestors has rules
\* was answered from a non-empty installed book, which is as it was.
C6_Witness ==
    /\ last.op = "find_policy_violations"
    /\ ~last.force_rebuild
    /\ rule_book # None
    /\ DOMAIN Index(rule_book) # {}
    /\ \E i \in 1..Len(gens) :
          /\ gens[i].rules = <<>>
          /\ gens[i].book = rule_book
          /\ gens[i].map_at_call = Index(rule_book)
          /\ \A n \in 1..Len(gens[i].resource.full_name) :
                gens[i].resource.full_name[n] \notin DOMAIN Index(rule_book)

RECURSIVE Concat(_)
Concat(seqs) == IF seqs = <<>> THEN <<>> ELSE Head(seqs) \o Concat(Tail(seqs))

\* The violations of one rule list on an entry, in list order
ListViolations(rule_list, acl) ==
    Concat([n \in 1..Len(rule_list) |->
              Rule_find_policy_violations(rule_list[n], acl)])

\* The per-ancestor violations concatenated in ancestor order
ExpectedViolations(map, resource, acl) ==
    LET chain == find_ancestors(resource, resource.full_name)
    IN  Concat([a \in 1..Len(chain) |->
                  ListViolations(Get(map, chain[a], <<>>), acl)])

Consumed(g) == g.pos = Len(g.rules)

\* C7: a sequence consumed to its end is the concatenation, over the
\* ancestor chain self first and root last, of each ancestor's rule list's
\* violations in list order, one per deciding rule and none removed.
C7_AncestorThenRuleOrder ==
    \A i \in 1..Len(gens) :
        Consumed(gens[i]) =>
            gens[i].yielded = ExpectedViolations(gens[i].map_at_call,
                                                 gens[i].resource, gens[i].bq_acl)

\* A consumed sequence with violations from the project's list and from the
\* organization's list, and a rule in between that decided no violation.
C7_Witness ==
    \E i \in 1..Len(gens) :
        LET g == gens[i] IN
        /\ Consumed(g)
        /\ Len(g.yielded) >= 3
        /\ Len(g.rules) > Len(g.yielded)
        /\ g.yielded[1].rule_name = "bl"
        /\ g.yielded[Len(g.yielded)].rule_name = "multi"
        /\ Len(Get(g.map_at_call, KeyOf(g.resource), <<>>)) >= 2
        /\ Len(Get(g.map_at_call, Org1, <<>>)) >= 2

\* What consuming sequence i from its current position to the end produces
RECURSIVE RestFrom(_, _)
RestFrom(g, acc) ==
    IF g.pos >= Len(g.rules) THEN acc
    ELSE RestFrom([g EXCEPT !.pos = @ + 1],
                  acc \o Rule_find_policy_violations(GenRule(g), g.bq_acl))

ConsumedToEnd(i) == RestFrom(gens[i], gens[i].yielded)

\* C8: a rebuild leaves every sequence returned earlier producing, element
\* for element, what it was going to produce before the rebuild.
C8_RebuildKeepsEnumeration ==
    [][(/\ EngineStep
        /\ last'.op \in {"build_rule_book", "find_policy_violations"}
        /\ last'.error = NoError
        /\ Len(heap') > Len(heap)) =>
          \A i \in 1..Len(gens) :
             /\ i <= Len(gens')
             /\ ConsumedToEnd(i)' = ConsumedToEnd(i)]_vars

\* A sequence is part consumed, with violations yielded and rules still to
\* run, and the engine has been rebuilt since it was returned: the installed
\* book is another object, with another index.
C8_Witness ==
    \E i \in 1..Len(gens) :
        LET g == gens[i] IN
        /\ 0 < g.pos
        /\ g.pos < Len(g.rules)
        /\ g.yielded # <<>>
        /\ Len(ConsumedToEnd(i)) > Len(g.yielded)
        /\ rule_book # None
        /\ rule_book # g.book
        /\ ~SameIndex(Index(rule_book), g.map_at_call)

\* Every (key, rule) registration a definitions dict makes, in file order
Registrations(rule_defs) ==
    LET rules == Get(rule_defs, "rules", <<>>)
        OfScope(d, raw) ==
            [n \in 1..Len(raw.resource_ids) |->
                [key  |-> create_resource(raw.resource_ids[n], raw.type),
                 rule |-> _build_rule(rules[d], d - 1, raw)]]
        OfDef(d) ==
            Concat([j \in 1..Len(rules[d].resource) |->
                      OfScope(d, rules[d].resource[j])])
    IN  Concat([d \in 1..Len(rules) |-> OfDef(d)])

\* The index holding exactly the rules of a (valid) definitions dict
FileIndex(rule_defs) ==
    LET regs == Registrations(rule_defs)
    IN  [k \in {regs[n].key : n \in 1..Len(regs)} |->
            LET mine == SelectSeq(regs, LAMBDA r : r.key = k)
            IN  [n \in 1..Len(mine) |-> mine[n].rule]]

\* C9: Engine.find_policy_violations builds exactly when the engine is
\* unbuilt or force_rebuild is set; then a new book holding only the rules of
\* the definition file replaces the previous one and answers the query;
\* otherwise nothing is built and the installed book answers.  A call that
\* returns leaves the engine built.
C9_BuildExactlyWhenNeeded ==
    [][(EngineStep /\ last'.op = "find_policy_violations") =>
          LET kept == Len(gens') > Len(gens)
              g    == gens'[Len(gens')]
          IN
          IF rule_book = None \/ last'.force_rebuild
          THEN /\ Len(heap') = Len(heap) + 1
               /\ last'.error = NoError =>
                    /\ rule_book' = Len(heap')
                    /\ heap'[rule_book'].live
                    /\ \A b \in 1..Len(heap) : ~heap'[b].live
                    /\ SameIndex(heap'[rule_book'].resource_rules_map,
                                 FileIndex(heap'[rule_book'].rule_defs))
                    /\ kept => /\ g.book = rule_book'
                               /\ g.map_at_call = heap'[rule_book'].resource_rules_map
          ELSE /\ last'.error = NoError
               /\ heap' = heap
               /\ rule_book' = rule_book
               /\ rule_book' # None
               /\ kept => /\ g.book = rule_book
                          /\ g.map_at_call = Index(rule_book)]_vars

\* A forced rebuild discarded the installed book and answered a query from
\* the new one, which holds the rules of the definition file.
C9_Witness ==
    /\ last.op = "find_policy_violations"
    /\ last.force_rebuild
    /\ last.error = NoError
    /\ Len(heap) = 2
    /\ rule_book = 2
    /\ ~heap[1].live
    /\ Len(gens) = 1
    /\ gens[1].book = 2
    /\ gens[1].rules # <<>>
    /\ gens[1].map_at_call = FileIndex(heap[2].rule_defs)

\* C10 as claimed: every list of the installed book is ordered by rule_index.
C10_ListsOrderedByIndex ==
    rule_book # None =>
        \A k \in DOMAIN Index(rule_book) : NonDecreasing(Index(rule_book)[k])

\* C10 as amended: the rules one add_rules call appends to a list (the call
\* made by the constructor included) are ordered by rule_index.
C10_EachBatchOrderedByIndex ==
    [][\A b \in 1..Len(heap') :
          \A k \in DOMAIN heap'[b].resource_rules_map :
             NonDecreasing(Appended(b, k))]_vars

\* add_rules appended two definitions of one batch to the same list.
C10_Witness ==
    /\ last.op = "add_rules"
    /\ last.error = NoError
    /\ rule_book # None
    /\ \E k \in DOMAIN Index(rule_book) :
          \E n \in 1..(Len(Index(rule_book)[k]) - 1) :
             /\ Index(rule_book)[k][n].rule_name = "multi"
             /\ Index(rule_book)[k][n + 1].rule_name = "bl"
             /\ Index(rule_book)[k][n].rule_index
                   # Index(rule_book)[k][n + 1].rule_index

(***************************************************************************)
(* Properties of Rule.find_policy_violations                               *)
(***************************************************************************)

\* The pattern the definition gives field f, compiled
PatternOf(f) == escape_and_globify(IF f = "role"
                                   THEN Upper(Get(rule_def, f, Star))
                                   ELSE Get(rule_def, f, Star))

\* Field f of the entry matches field f's own pattern
OwnMatch(f) == ReMatch(PatternOf(f), bq_acl[f])

ModeOfDef(m) == IF m = "whitelist" THEN WHITELIST ELSE BLACKLIST

\* C1: for an applicable entry the rule yields a violation iff it is a
\* BLACKLIST rule and each of the four fields matches its own pattern, or a
\* WHITELIST rule and some field does not match its own pattern.
C1_ViolationIffOwnPatterns ==
    \A m \in DefModes :
        (yielded[m].done /\ OwnMatch("dataset_id") /\ OwnMatch("role")) =>
            ((yielded[m].out # <<>>) <=>
                \/ (ModeOfDef(m) = BLACKLIST /\ \A f \in MatchedFields : OwnMatch(f))
                \/ (ModeOfDef(m) = WHITELIST /\ \E f \in MatchedFields : ~OwnMatch(f)))

\* C2: an entry whose dataset_id or role does not match the rule's own
\* dataset_id or role pattern yields no violation, whatever the mode.
C2_NotApplicableNoViolation ==
    \A m \in DefModes :
        (yielded[m].done /\ (~OwnMatch("dataset_id") \/ ~OwnMatch("role"))) =>
            yielded[m].out = <<>>

BothRun == yielded["whitelist"].done /\ yielded["blacklist"].done

ApplicableToBoth ==
    /\ _is_applicable(_build_rule(WithMode(rule_def, "whitelist"), 0, "{}"), bq_acl)
    /\ _is_applicable(_build_rule(WithMode(rule_def, "blacklist"), 0, "{}"), bq_acl)

\* C3: a WHITELIST rule and a BLACKLIST rule with the same field patterns
\* decide an applicable entry in opposite ways: exactly one yields a violation.
C3_ModesComplementary ==
    (BothRun /\ ApplicableToBoth) =>
        ((yielded["whitelist"].out # <<>>) <=> (yielded["blacklist"].out = <<>>))

\* Both modes were run on an applicable entry that matches some, not all, of
\* the rule's non-default patterns: the whitelist rule is the one that yields.
C3_Witness ==
    /\ BothRun
    /\ ApplicableToBoth
    /\ "user_email" \in DOMAIN rule_def
    /\ "domain" \in DOMAIN rule_def
    /\ OwnMatch("user_email")
    /\ ~OwnMatch("domain")
    /\ Len(yielded["whitelist"].out) = 1
    /\ yielded["blacklist"].out = <<>>

====
